---- MODULE Spec2Model ----
(***************************************************************************)
(* A model of the file server of src/main.mjs: the hashed upload           *)
(* (POST /:bucket, staged by multer.diskStorage and finalized by the       *)
(* handler) and the direct write (PUT /:bucket/:key), over a filesystem    *)
(* of directories, names and inodes.                                       *)
(*                                                                         *)
(* Strings are sequences of one-character strings, so that path.join,      *)
(* path.resolve, path.dirname, path.extname and String.startsWith are      *)
(* computed character by character, as the code computes them.             *)
(***************************************************************************)
EXTENDS Integers, Sequences, FiniteSets, TLC

VARIABLES
    fs,      \* the directory tree: path components -> [kind, ino]
    inodes,  \* the file contents: inode number -> sequence of bytes
    pc,      \* each request's position in its handler
    inp,     \* each request's input (method, bucket, key, body, ...)
    loc,     \* each request's locals (staged path, fingerprint, open file, ...)
    res,     \* each request's responses so far: [status, error]
    touched, \* history: the paths each request created, wrote, removed or renamed
    rand,    \* the number of names drawn from crypto.randomBytes so far
    call     \* a call of resolveSafePath on its own: arguments and outcome

vars == <<fs, inodes, pc, inp, loc, res, touched, rand, call>>

----------------------------------------------------------------------------
(* Bounds of the model *)

\* the number of distinct request bodies; body b is b chunks of the byte b
NumBodies == 2

\* the requests: a pair, in flight together or one after the other (the
\* properties below speak of one request or of a pair of them)
Reqs == {1, 2}
Bodies == {[i \in 1 .. b |-> b] : b \in 1 .. NumBodies}

----------------------------------------------------------------------------
(* Strings *)

sep == "/"

StartsWith(s, p) == Len(p) <= Len(s) /\ SubSeq(s, 1, Len(p)) = p

EndsWith(s, p) == Len(p) <= Len(s) /\ SubSeq(s, Len(s) - Len(p) + 1, Len(s)) = p

\* the index of the last c in s, 0 when there is none
LastIndexOf(s, c) ==
    LET hits == {i \in 1 .. Len(s) : s[i] = c}
    IN  IF hits = {} THEN 0 ELSE CHOOSE i \in hits : \A j \in hits : j <= i

RECURSIVE SplitFrom(_, _, _)
SplitFrom(s, i, cur) ==
    IF i > Len(s) THEN <<cur>>
    ELSE IF s[i] = sep THEN <<cur>> \o SplitFrom(s, i + 1, <<>>)
    ELSE SplitFrom(s, i + 1, Append(cur, s[i]))

\* s.split("/")
Split(s) == SplitFrom(s, 1, <<>>)

RECURSIVE JoinWith(_)
\* parts.join("/")
JoinWith(parts) ==
    IF parts = <<>> THEN <<>>
    ELSE IF Len(parts) = 1 THEN parts[1]
    ELSE parts[1] \o <<sep>> \o JoinWith(Tail(parts))

IsNonEmpty(s) == s # <<>>

----------------------------------------------------------------------------
(* node:path (posix) *)

RECURSIVE NormalizeSegs(_, _, _)
\* normalizeString: drop "" and ".", let ".." consume the segment before it
NormalizeSegs(in, out, allowAboveRoot) ==
    IF in = <<>> THEN out
    ELSE LET h == Head(in) IN
         IF h = <<>> \/ h = <<".">> THEN NormalizeSegs(Tail(in), out, allowAboveRoot)
         ELSE IF h = <<".", ".">> THEN
              IF out # <<>> /\ out[Len(out)] # <<".", ".">>
              THEN NormalizeSegs(Tail(in), SubSeq(out, 1, Len(out) - 1), allowAboveRoot)
              ELSE IF allowAboveRoot
                   THEN NormalizeSegs(Tail(in), Append(out, h), allowAboveRoot)
                   ELSE NormalizeSegs(Tail(in), out, allowAboveRoot)
         ELSE NormalizeSegs(Tail(in), Append(out, h), allowAboveRoot)

IsAbsolute(p) == p # <<>> /\ p[1] = sep

\* path.normalize
pathNormalize(p) ==
    IF p = <<>> THEN <<".">>
    ELSE LET abs  == IsAbsolute(p)
             body == JoinWith(NormalizeSegs(Split(p), <<>>, ~abs))
             trail == IF EndsWith(p, <<sep>>) /\ body # <<>> THEN <<sep>> ELSE <<>>
         IN  IF abs THEN <<sep>> \o body \o trail
             ELSE IF body = <<>> THEN <<".">> \o trail
             ELSE body \o trail

\* path.join(...segments)
pathJoin(segments) ==
    LET joined == JoinWith(SelectSeq(segments, IsNonEmpty))
    IN  IF joined = <<>> THEN <<".">> ELSE pathNormalize(joined)

\* path.resolve(from, to), from an absolute path
pathResolve(from, to) ==
    LET full == IF IsAbsolute(to) THEN to
                ELSE IF to = <<>> THEN from
                ELSE from \o <<sep>> \o to
    IN  <<sep>> \o JoinWith(NormalizeSegs(Split(full), <<>>, FALSE))

\* a path without its trailing separators (the root keeps its one)
RECURSIVE StripTrailing(_)
StripTrailing(p) ==
    IF Len(p) > 1 /\ p[Len(p)] = sep THEN StripTrailing(SubSeq(p, 1, Len(p) - 1)) ELSE p

\* path.dirname
pathDirname(p) ==
    IF p = <<>> THEN <<".">>
    ELSE LET q == StripTrailing(p)
             k == LastIndexOf(q, sep)
         IN  IF k = 0 THEN <<".">>
             ELSE IF k = 1 THEN <<sep>>
             ELSE StripTrailing(SubSeq(q, 1, k - 1))

\* path.basename
pathBasename(p) ==
    LET q == StripTrailing(p)
    IN  SubSeq(q, LastIndexOf(q, sep) + 1, Len(q))

\* path.extname: from the last "." of the base name, unless the name starts with it
pathExtname(p) ==
    LET b == pathBasename(p)
        k == LastIndexOf(b, ".")
    IN  IF k <= 1 \/ b = <<".", ".">> \/ b = <<sep>> THEN <<>> ELSE SubSeq(b, k, Len(b))

----------------------------------------------------------------------------
(* resolveSafePath *)

publicRoot == <<"/", "p", "u", "b">>

\* resolveSafePath comparing against rootDir without the trailing separator
resolveSafePathNoSep(rootDir, segments) ==
    LET unsafePath == pathJoin(segments)
        resolved   == pathResolve(rootDir, unsafePath)
    IN  [ok |-> StartsWith(resolved, rootDir), path |-> resolved]

\* the throw of "Invalid path" is ok = FALSE
resolveSafePath(rootDir, segments) ==
    LET unsafePath     == pathJoin(segments)
        resolved       == pathResolve(rootDir, unsafePath)
        normalizedRoot == IF EndsWith(rootDir, <<sep>>) THEN rootDir ELSE rootDir \o <<sep>>
    IN  [ok |-> StartsWith(resolved \o <<sep>>, normalizedRoot), path |-> resolved]

----------------------------------------------------------------------------
(* The filesystem: a tree of names, and inodes holding the bytes.          *)
(* A path is looked up by its components; an open file is an inode, so a   *)
(* write through an open stream follows the file across rename and unlink. *)

Dir == [kind |-> "dir", ino |-> 0]

File(i) == [kind |-> "file", ino |-> i]

\* the components of an absolute, normalized path
Comp(p) == SelectSeq(Split(p), IsNonEmpty)

Parent(c) == SubSeq(c, 1, Len(c) - 1)

Prefixes(c) == {SubSeq(c, 1, k) : k \in 0 .. Len(c)}

Exists(f, c) == c \in DOMAIN f

IsDir(f, c) == c \in DOMAIN f /\ f[c].kind = "dir"

IsFile(f, c) == c \in DOMAIN f /\ f[c].kind = "file"

\* fs.promises.mkdir(p, {recursive: true}): fails when a component is a file
fsMkdirP(f, c) ==
    [ok      |-> \A q \in Prefixes(c) : ~IsFile(f, q),
     fs      |-> [q \in DOMAIN f \cup Prefixes(c) |-> IF q \in DOMAIN f THEN f[q] ELSE Dir],
     created |-> Prefixes(c) \ DOMAIN f]

\* open(p, "r+")-like: the file that is there keeps its bytes
fsOpenKeep(f, ino, c) ==
    LET old == IsFile(f, c)
        i   == IF old THEN f[c].ino ELSE Len(ino) + 1
    IN  [ok     |-> c # <<>> /\ IsDir(f, Parent(c)) /\ ~IsDir(f, c),
         ino    |-> i,
         fs     |-> [q \in DOMAIN f \cup {c} |-> IF q = c THEN File(i) ELSE f[q]],
         inodes |-> IF old THEN ino ELSE Append(ino, <<>>)]

\* open(p, "w"): creates the file, or truncates the one that is there
fsOpenW(f, ino, c) ==
    LET old == IsFile(f, c)
        i   == IF old THEN f[c].ino ELSE Len(ino) + 1
    IN  [ok     |-> c # <<>> /\ IsDir(f, Parent(c)) /\ ~IsDir(f, c),
         ino    |-> i,
         fs     |-> [q \in DOMAIN f \cup {c} |-> IF q = c THEN File(i) ELSE f[q]],
         inodes |-> IF old THEN [ino EXCEPT ![i] = <<>>] ELSE Append(ino, <<>>)]

\* write(fd, chunk) at the stream's own offset; a gap left by a truncation reads as 0
fsWriteAt(data, pos, byte) ==
    LET padded == data \o [k \in 1 .. (pos - Len(data)) |-> 0]
    IN  IF pos < Len(padded) THEN [padded EXCEPT ![pos + 1] = byte]
        ELSE Append(padded, byte)

\* fs.promises.unlink(p)
fsUnlink(f, c) ==
    [ok |-> IsFile(f, c),
     fs |-> [q \in DOMAIN f \ {c} |-> f[q]]]

\* a rename that refuses a destination that is there
fsRenameNoReplace(f, src, dst) ==
    [ok |-> IsFile(f, src) /\ dst # <<>> /\ IsDir(f, Parent(dst)) /\ ~Exists(f, dst),
     fs |-> [q \in (DOMAIN f \ {src}) \cup {dst} |->
                IF q # dst THEN f[q] ELSE IF src \in DOMAIN f THEN f[src] ELSE Dir]]

\* fs.promises.rename(src, dst) of a file: replaces a file at dst, fails on a directory
fsRename(f, src, dst) ==
    [ok |-> IsFile(f, src) /\ dst # <<>> /\ IsDir(f, Parent(dst)) /\ ~IsDir(f, dst),
     fs |-> [q \in (DOMAIN f \ {src}) \cup {dst} |->
                IF q # dst THEN f[q] ELSE IF src \in DOMAIN f THEN f[src] ELSE Dir]]

\* fs.promises.access(p, F_OK): any kind of entry
fsAccess(f, c) == Exists(f, c)

\* the bytes of the file at c, <<>> when there is no file
Content(f, ino, c) == IF IsFile(f, c) THEN ino[f[c].ino] ELSE <<>>

----------------------------------------------------------------------------
(* Digests and random names *)

RECURSIVE Hex(_)
Hex(data) == IF data = <<>> THEN <<>> ELSE <<ToString(Head(data))>> \o Hex(Tail(data))

\* hash.digest("hex") of the bytes read: one name per content
DigestHex(data) == <<"h">> \o Hex(data)

\* computeFileSha256Hex(filePath): rejects when the file cannot be read
computeFileSha256Hex(f, ino, filePath) ==
    [ok  |-> IsFile(f, Comp(filePath)),
     hex |-> DigestHex(Content(f, ino, Comp(filePath)))]

\* crypto.randomBytes(16).toString("hex"): the n-th draw, never drawn twice
randomHex(n) == <<"r", ToString(n)>>

----------------------------------------------------------------------------
(* Requests *)

Buckets == {<<"a">>}

keyNone == <<>>
keyDir  == <<"d", "/", "f", ".", "t">>
keyUp   == <<".", ".", "/", "b", "/", "f", ".", "t">>
keyOut  == <<".", ".", "/", ".", ".", "/", "f", ".", "t">>
\* a direct-write key naming the content address of body 1 under d/
keyHash == <<"d", "/">> \o DigestHex([i \in 1 .. 1 |-> 1]) \o <<".", "t">>

\* an upload key whose directory is named like that content address
keyAddr == keyHash \o <<"/", "f", ".", "t">>

PutKeys == {keyNone, keyDir, keyUp, keyOut, keyHash}

nameNone == <<>>
namePic  == <<"o", ".", "p">>

\* keyFirst: the key field precedes the file part in the multipart body, so
\* req.body.key is set when multer asks for the destination and the filename
\* (with no key the order changes nothing). The original name varies with the
\* keys that have no directory, or a plain one.
PostInputs ==
    [method : {"POST"}, bucket : Buckets, key : {keyDir, keyUp, keyOut, keyAddr},
     keyFirst : BOOLEAN, hasFile : {TRUE}, originalname : {nameNone}, body : Bodies]
    \cup
    [method : {"POST"}, bucket : Buckets, key : {keyDir},
     keyFirst : BOOLEAN, hasFile : {TRUE}, originalname : {namePic}, body : Bodies]
    \cup
    [method : {"POST"}, bucket : Buckets, key : {keyNone},
     keyFirst : {TRUE}, hasFile : {TRUE}, originalname : {nameNone, namePic}, body : Bodies]
    \cup
    [method : {"POST"}, bucket : Buckets, key : {keyNone},
     keyFirst : {TRUE}, hasFile : {FALSE}, originalname : {nameNone}, body : {<<>>}]

PutInputs ==
    [method : {"PUT"}, bucket : Buckets, key : PutKeys, keyFirst : {TRUE},
     hasFile : {FALSE}, originalname : {<<>>}, body : Bodies]

NoInput ==
    [method |-> "", bucket |-> <<>>, key |-> <<>>, keyFirst |-> TRUE,
     hasFile |-> FALSE, originalname |-> <<>>, body |-> <<>>]

\* destination, filename, path: req.file as multer fills it (path: outPath for a
\* direct write); ino, pos: the open write stream; tempPath, sha256Hex, finalKey,
\* finalPath: the handler's consts; branch: the arm of the try/catch that ended
\* the finalize; after: history, the requests already answered when this one came
NoLocals ==
    [destination |-> <<>>, filename |-> <<>>, path |-> <<>>, ino |-> 0, pos |-> 0,
     tempPath |-> <<>>, sha256Hex |-> <<>>, finalKey |-> <<>>, finalPath |-> <<>>,
     branch |-> "", after |-> {}]

\* the err.message of the three throws of the code, and of a failed filesystem call
InvalidPath == "Invalid path"
MissingFile == "Missing uploaded file"
MissingKey  == "Missing key"
FsError     == "filesystem error"

\* no call of resolveSafePath on its own
NoCall == [rootDir |-> <<>>, segments |-> <<>>, done |-> FALSE, ok |-> FALSE, path |-> <<>>]

Init ==
    /\ fs = [c \in {<<>>, Comp(publicRoot)} |-> Dir]
    /\ inodes = <<>>
    /\ pc = [r \in Reqs |-> "idle"]
    /\ inp = [r \in Reqs |-> NoInput]
    /\ loc = [r \in Reqs |-> NoLocals]
    /\ res = [r \in Reqs |-> <<>>]
    /\ touched = [r \in Reqs |-> {}]
    /\ rand = 0
    /\ call = NoCall

\* res.status(code).json({error: err.message}), or the 200 with the result
Respond(r, code, message) ==
    /\ pc' = [pc EXCEPT ![r] = "done"]
    /\ res' = [res EXCEPT ![r] = Append(@, [status |-> code, error |-> message])]

Touch(r, paths) == touched' = [touched EXCEPT ![r] = @ \cup paths]

\* a request arrives; the requests are numbered in the order of their arrival
Start(r) ==
    /\ pc[r] = "idle"
    /\ \A q \in Reqs : q < r => pc[q] # "idle"
    /\ \E i \in PostInputs \cup PutInputs :
          /\ inp' = [inp EXCEPT ![r] = i]
          /\ loc' = [loc EXCEPT ![r].after = {q \in Reqs : pc[q] = "done"}]
          /\ pc' = [pc EXCEPT ![r] =
                       IF i.method = "PUT" THEN "put"
                       ELSE IF i.hasFile THEN "destination" ELSE "handler"]
    /\ UNCHANGED <<fs, inodes, res, touched, rand>>
    /\ UNCHANGED call

----------------------------------------------------------------------------
(* POST /:bucket, first half: upload.single("file"), multer's disk storage *)

\* req.body.key as the storage callbacks see it: only a field that came before the file
keySeenByStorage(i) == IF i.keyFirst THEN i.key ELSE <<>>

\* dirName and finalDir, as the destination callback and the handler both compute them
finalDirOf(key) ==
    LET dirName == IF key # <<>> THEN pathDirname(key) ELSE <<>>
    IN  IF dirName = <<".">> THEN <<>> ELSE dirName

\* destination: resolve the directory, mkdir it
destinationOf(i) == resolveSafePath(publicRoot, <<i.bucket, finalDirOf(keySeenByStorage(i))>>)

\* filename keeping the name the client gave, that of the key, else the
\* original name
filenameOfKey(i, n) ==
    LET key == keySeenByStorage(i)
    IN  pathBasename(IF key # <<>> THEN key ELSE i.originalname)

\* filename: a random name with the extension of the key, else of the original name
filenameOf(i, n) ==
    LET key       == keySeenByStorage(i)
        extSource == IF key # <<>> THEN key ELSE i.originalname
    IN  randomHex(n) \o pathExtname(extSource)

\* destination(req, file, cb), then filename(req, file, cb); an error given to cb
\* goes to next(err), which the default error handler answers with 500
Destination(r) ==
    /\ pc[r] = "destination"
    /\ LET dest == destinationOf(inp[r])
           made == fsMkdirP(fs, Comp(dest.path))
           name == filenameOf(inp[r], rand + 1)
       IN  IF dest.ok /\ made.ok
           THEN /\ fs' = made.fs
                /\ Touch(r, made.created)
                /\ rand' = rand + 1
                /\ loc' = [loc EXCEPT ![r].destination = dest.path,
                                      ![r].filename = name,
                                      ![r].path = pathJoin(<<dest.path, name>>)]
                /\ pc' = [pc EXCEPT ![r] = "stageOpen"]
                /\ UNCHANGED <<inodes, inp, res>>
           ELSE /\ Respond(r, 500, IF dest.ok THEN FsError ELSE InvalidPath)
                /\ UNCHANGED <<fs, inodes, inp, loc, touched, rand>>
    /\ UNCHANGED call

\* multer opens the staged file: fs.createWriteStream(finalPath)
StageOpen(r) ==
    /\ pc[r] = "stageOpen"
    /\ LET c      == Comp(loc[r].path)
           opened == fsOpenW(fs, inodes, c)
       IN  IF opened.ok
           THEN /\ fs' = opened.fs
                /\ inodes' = opened.inodes
                /\ Touch(r, {c})
                /\ loc' = [loc EXCEPT ![r].ino = opened.ino, ![r].pos = 0]
                /\ pc' = [pc EXCEPT ![r] = "stageWrite"]
                /\ UNCHANGED <<inp, res, rand>>
           ELSE /\ Respond(r, 500, FsError)
                /\ UNCHANGED <<fs, inodes, inp, loc, touched, rand>>
    /\ UNCHANGED call

\* file.stream.pipe(outStream): one chunk of the file part; after the last one
\* the stream finishes, req.file is set and the handler is called
StageWrite(r) ==
    /\ pc[r] = "stageWrite"
    /\ LET l == loc[r] IN
       /\ inodes' = [inodes EXCEPT ![l.ino] = fsWriteAt(@, l.pos, inp[r].body[l.pos + 1])]
       /\ loc' = [loc EXCEPT ![r].pos = l.pos + 1]
       /\ pc' = [pc EXCEPT ![r] = IF l.pos + 1 = Len(inp[r].body) THEN "handler" ELSE "stageWrite"]
    /\ UNCHANGED <<fs, inp, res, touched, rand>>
    /\ UNCHANGED call

----------------------------------------------------------------------------
(* POST /:bucket, second half: the handler *)

\* const tempKey, tempPath
tempPathOf(i, savedFileName) ==
    LET finalDir == finalDirOf(i.key)
        tempKey  == IF finalDir # <<>> THEN pathJoin(<<finalDir, savedFileName>>)
                    ELSE savedFileName
    IN  resolveSafePath(publicRoot, <<i.bucket, tempKey>>)

\* the handler's ext with the priority reversed: the key first, as in the
\* storage's filename callback
extOfKey(i) ==
    pathExtname(IF i.key # <<>> THEN i.key ELSE i.originalname)

\* const ext: the extension of the original name, else of the key
extOf(i) ==
    pathExtname(IF i.originalname # <<>> THEN i.originalname ELSE i.key)

\* const hashedName, finalKey
finalKeyOf(i, sha256Hex) ==
    LET finalDir   == finalDirOf(i.key)
        hashedName == sha256Hex \o extOf(i)
    IN  IF finalDir # <<>> THEN pathJoin(<<finalDir, hashedName>>) ELSE hashedName

\* const finalPath
finalPathOf(i, sha256Hex) == resolveSafePath(publicRoot, <<i.bucket, finalKeyOf(i, sha256Hex)>>)

\* the handler up to its first await: the missing-file check, tempPath, and
\* computeFileSha256Hex(tempPath); every throw ends in the catch, with 400
HashFile(r) ==
    /\ pc[r] = "handler"
    /\ LET savedFileName == loc[r].filename
           temp          == tempPathOf(inp[r], savedFileName)
           hashed        == computeFileSha256Hex(fs, inodes, temp.path)
       IN  IF ~inp[r].hasFile \/ ~temp.ok \/ ~hashed.ok
           THEN /\ Respond(r, 400, IF ~inp[r].hasFile THEN MissingFile
                                    ELSE IF ~temp.ok THEN InvalidPath ELSE FsError)
                /\ UNCHANGED loc
           ELSE /\ loc' = [loc EXCEPT ![r].tempPath = temp.path,
                                      ![r].sha256Hex = hashed.hex]
                /\ pc' = [pc EXCEPT ![r] = "access"]
                /\ UNCHANGED res
    /\ UNCHANGED <<fs, inodes, inp, touched, rand>>
    /\ UNCHANGED call

\* finalPath, then fs.promises.access(finalPath): there, go on to unlink;
\* not there, to the catch block
Access(r) ==
    /\ pc[r] = "access"
    /\ LET final == finalPathOf(inp[r], loc[r].sha256Hex)
       IN  IF ~final.ok
           THEN /\ Respond(r, 400, InvalidPath)
                /\ UNCHANGED loc
           ELSE /\ loc' = [loc EXCEPT ![r].finalKey = finalKeyOf(inp[r], loc[r].sha256Hex),
                                      ![r].finalPath = final.path]
                /\ pc' = [pc EXCEPT ![r] =
                             IF fsAccess(fs, Comp(final.path)) THEN "unlink" ELSE "mkdir"]
                /\ UNCHANGED res
    /\ UNCHANGED <<fs, inodes, inp, touched, rand>>
    /\ UNCHANGED call

\* Unlink removing the file at finalPath in place of the one at tempPath
UnlinkFinal(r) ==
    /\ pc[r] = "unlink"
    /\ LET c       == Comp(loc[r].finalPath)
           removed == fsUnlink(fs, c)
       IN  IF removed.ok
           THEN /\ fs' = removed.fs
                /\ Touch(r, {c})
                /\ loc' = [loc EXCEPT ![r].branch = "try"]
                /\ Respond(r, 200, "")
           ELSE /\ pc' = [pc EXCEPT ![r] = "mkdir"]
                /\ UNCHANGED <<fs, loc, res, touched>>
    /\ UNCHANGED <<inodes, inp, rand>>
    /\ UNCHANGED call

\* fs.promises.unlink(tempPath), then the 200; a failure goes to the catch block
Unlink(r) ==
    /\ pc[r] = "unlink"
    /\ LET c       == Comp(loc[r].tempPath)
           removed == fsUnlink(fs, c)
       IN  IF removed.ok
           THEN /\ fs' = removed.fs
                /\ Touch(r, {c})
                /\ loc' = [loc EXCEPT ![r].branch = "try"]
                /\ Respond(r, 200, "")
           ELSE /\ pc' = [pc EXCEPT ![r] = "mkdir"]
                /\ UNCHANGED <<fs, loc, res, touched>>
    /\ UNCHANGED <<inodes, inp, rand>>
    /\ UNCHANGED call

\* catch: fs.promises.mkdir(path.dirname(finalPath), {recursive: true})
MkdirFinal(r) ==
    /\ pc[r] = "mkdir"
    /\ LET made == fsMkdirP(fs, Comp(pathDirname(loc[r].finalPath)))
       IN  IF made.ok
           THEN /\ fs' = made.fs
                /\ Touch(r, made.created)
                /\ pc' = [pc EXCEPT ![r] = "rename"]
                /\ UNCHANGED res
           ELSE /\ Respond(r, 400, FsError)
                /\ UNCHANGED <<fs, touched>>
    /\ UNCHANGED <<inodes, inp, loc, rand>>
    /\ UNCHANGED call

\* catch: fs.promises.rename(tempPath, finalPath), then the 200
Rename(r) ==
    /\ pc[r] = "rename"
    /\ LET src   == Comp(loc[r].tempPath)
           dst   == Comp(loc[r].finalPath)
           moved == fsRename(fs, src, dst)
       IN  IF moved.ok
           THEN /\ fs' = moved.fs
                /\ Touch(r, {src, dst})
                /\ loc' = [loc EXCEPT ![r].branch = "catch"]
                /\ Respond(r, 200, "")
           ELSE /\ Respond(r, 400, FsError)
                /\ UNCHANGED <<fs, loc, touched>>
    /\ UNCHANGED <<inodes, inp, rand>>
    /\ UNCHANGED call

----------------------------------------------------------------------------
(* PUT /:bucket/:key, the direct write *)

\* the handler up to its await: the key check, outPath, mkdir of its directory
PutResolve(r) ==
    /\ pc[r] = "put"
    /\ LET out  == resolveSafePath(publicRoot, <<inp[r].bucket, inp[r].key>>)
           made == fsMkdirP(fs, Comp(pathDirname(out.path)))
       IN  IF inp[r].key # <<>> /\ out.ok /\ made.ok
           THEN /\ fs' = made.fs
                /\ Touch(r, made.created)
                /\ loc' = [loc EXCEPT ![r].path = out.path]
                /\ pc' = [pc EXCEPT ![r] = "putOpen"]
                /\ UNCHANGED res
           ELSE /\ Respond(r, 400, IF inp[r].key = <<>> THEN MissingKey
                                    ELSE IF ~out.ok THEN InvalidPath ELSE FsError)
                /\ UNCHANGED <<fs, loc, touched>>
    /\ UNCHANGED <<inodes, inp, rand>>
    /\ UNCHANGED call

\* PutOpen without the listener on the stream's "error" event: a failure to
\* open the file is answered by nobody
PutOpenUnheard(r) ==
    /\ pc[r] = "putOpen"
    /\ LET c      == Comp(loc[r].path)
           opened == fsOpenW(fs, inodes, c)
       IN  IF opened.ok
           THEN /\ fs' = opened.fs
                /\ inodes' = opened.inodes
                /\ Touch(r, {c})
                /\ loc' = [loc EXCEPT ![r].ino = opened.ino, ![r].pos = 0]
                /\ pc' = [pc EXCEPT ![r] = "putWrite"]
                /\ UNCHANGED res
           ELSE /\ pc' = [pc EXCEPT ![r] = "putFailed"]
                /\ UNCHANGED <<fs, inodes, loc, touched, res>>
    /\ UNCHANGED <<inp, rand>>
    /\ UNCHANGED call

\* fs.createWriteStream(outPath, {flags: "w"}) opens the file; a failure is the
\* stream's "error" event, answered with 500
PutOpen(r) ==
    /\ pc[r] = "putOpen"
    /\ LET c      == Comp(loc[r].path)
           opened == fsOpenW(fs, inodes, c)
       IN  IF opened.ok
           THEN /\ fs' = opened.fs
                /\ inodes' = opened.inodes
                /\ Touch(r, {c})
                /\ loc' = [loc EXCEPT ![r].ino = opened.ino, ![r].pos = 0]
                /\ pc' = [pc EXCEPT ![r] = "putWrite"]
                /\ UNCHANGED res
           ELSE /\ Respond(r, 500, FsError)
                /\ UNCHANGED <<fs, inodes, loc, touched>>
    /\ UNCHANGED <<inp, rand>>
    /\ UNCHANGED call

\* req.pipe(writeStream): one chunk of the body; after the last one the
\* stream's "finish" event answers with 200
PutWrite(r) ==
    /\ pc[r] = "putWrite"
    /\ LET l == loc[r] IN
       /\ inodes' = [inodes EXCEPT ![l.ino] = fsWriteAt(@, l.pos, inp[r].body[l.pos + 1])]
       /\ loc' = [loc EXCEPT ![r].pos = l.pos + 1]
       /\ IF l.pos + 1 = Len(inp[r].body)
          THEN Respond(r, 200, "")
          ELSE UNCHANGED <<pc, res>>
    /\ UNCHANGED <<fs, inp, touched, rand>>
    /\ UNCHANGED call

----------------------------------------------------------------------------

Next ==
    \E r \in Reqs :
        \/ Start(r)
        \/ Destination(r)
        \/ StageOpen(r)
        \/ StageWrite(r)
        \/ HashFile(r)
        \/ Access(r)
        \/ Unlink(r)
        \/ MkdirFinal(r)
        \/ Rename(r)
        \/ PutResolve(r)
        \/ PutOpen(r)
        \/ PutWrite(r)

Spec == Init /\ [][Next]_vars

\* the steps of the request r once it has arrived: callbacks and continuations
\* that the event loop runs as soon as their filesystem call or chunk is ready
Step(r) ==
    \/ Destination(r) \/ StageOpen(r) \/ StageWrite(r)
    \/ HashFile(r) \/ Access(r) \/ Unlink(r) \/ MkdirFinal(r) \/ Rename(r)
    \/ PutResolve(r) \/ PutOpen(r) \/ PutWrite(r)

\* the server with its scheduling: no request that can take a step waits forever
FairSpec == Spec /\ \A r \in Reqs : WF_vars(Step(r))

----------------------------------------------------------------------------
(* resolveSafePath on its own: one call, with arguments from bounded sets *)

\* root directories, as path.resolve returns them
Roots == {<<"/", "d", "/", "a", "b">>, <<"/", "p", "u", "b">>}

\* first segments: names, "..", a climb into the sibling, an absolute path
FirstSegments ==
    {<<"a">>, <<"a", "b">>, <<".">>, <<".", ".">>,
     <<".", ".", "/", "a", "b", "c">>, <<".", ".", "/", "a", "b">>,
     <<"/", "d", "/", "a", "b", "c">>}

\* second segments: empty, names, climbs of one and two levels
SecondSegments ==
    {<<>>, <<"f">>, <<"x", "/", "f">>, <<".", ".">>, <<".", ".", "/", "f">>,
     <<".", ".", "/", ".", ".", "/", "a", "b">>,
     <<".", ".", "/", ".", ".", "/", "a", "b", "c">>,
     <<"x", "/", ".", ".", "/", ".", ".">>}

InitResolve ==
    /\ fs = [c \in {<<>>, Comp(publicRoot)} |-> Dir]
    /\ inodes = <<>>
    /\ pc = [r \in Reqs |-> "idle"]
    /\ inp = [r \in Reqs |-> NoInput]
    /\ loc = [r \in Reqs |-> NoLocals]
    /\ res = [r \in Reqs |-> <<>>]
    /\ touched = [r \in Reqs |-> {}]
    /\ rand = 0
    /\ \E rootDir \in Roots, s1 \in FirstSegments, s2 \in SecondSegments :
           call = [NoCall EXCEPT !.rootDir = rootDir, !.segments = <<s1, s2>>]

\* the call returns resolved (ok) or throws "Invalid path" (not ok)
Resolve ==
    /\ ~call.done
    /\ LET out == resolveSafePath(call.rootDir, call.segments)
       IN  call' = [call EXCEPT !.done = TRUE, !.ok = out.ok, !.path = out.path]
    /\ UNCHANGED <<fs, inodes, pc, inp, loc, res, touched, rand>>

NextResolve == Resolve

SpecResolve == InitResolve /\ [][NextResolve]_vars

----------------------------------------------------------------------------
(* What the claims speak of *)

IsUpload(r) == inp[r].method = "POST"

IsDirect(r) == inp[r].method = "PUT"

Answered(r) == pc[r] = "done"

\* the response of an answered request
Reply(r) == res[r][Len(res[r])]

Succeeded(r) == Answered(r) /\ Reply(r).status = 200

\* storageRoot/<bucket>, by components
BucketDir(r) == Comp(publicRoot) \o <<inp[r].bucket>>

\* c lies strictly under the directory d
Under(c, d) == Len(c) > Len(d) /\ SubSeq(c, 1, Len(d)) = d

HasDotDot(key) == \E k \in 1 .. Len(Split(key)) : Split(key)[k] = <<".", ".">>

\* r has passed its existence check: it is in, or through, the finalize steps
InFinalize(r) == IsUpload(r) /\ loc[r].finalPath # <<>>

\* the upload r ends with a 200 in this step
Completes(r) == IsUpload(r) /\ pc[r] # "done" /\ pc'[r] = "done" /\ res'[r][Len(res'[r])].status = 200

----------------------------------------------------------------------------
(* C1: every file a request that is not rejected with "Invalid path" creates, *)
(* writes, removes or renames lies under its own bucket directory             *)
(* publicRoot/<bucket>: never in another bucket's directory, never in         *)
(* publicRoot itself.                                                         *)
C1_PathContainment ==
    \A r \in Reqs :
        ~(Answered(r) /\ Reply(r).error = InvalidPath)
        => \A c \in touched[r] : IsDir(fs, c) \/ Under(c, BucketDir(r))

(* C2: two hashed uploads that reach the finalize steps with the same final   *)
(* path: however their access, unlink, mkdir and rename steps interleave,     *)
(* each one that has been answered got a 200, and then one file is at the     *)
(* final path and none at its staged path.                                    *)
C2_RaceIsBenign ==
    \A r1, r2 \in Reqs :
        (/\ r1 # r2
         /\ InFinalize(r1) /\ InFinalize(r2)
         /\ loc[r1].finalPath = loc[r2].finalPath
         /\ Answered(r1))
        => /\ Reply(r1).status = 200
           /\ IsFile(fs, Comp(loc[r1].finalPath))
           /\ ~Exists(fs, Comp(loc[r1].path))

\* both uploads found the final path absent and both renamed onto it
C2_BothRenamed ==
    \E r1, r2 \in Reqs :
        /\ r1 # r2
        /\ InFinalize(r1) /\ InFinalize(r2)
        /\ loc[r1].finalPath = loc[r2].finalPath
        /\ Succeeded(r1) /\ Succeeded(r2)
        /\ loc[r1].branch = "catch" /\ loc[r2].branch = "catch"

(* C3: whenever the finalize of a hashed upload completes, by the unlink or   *)
(* by the rename, the resulting state has a file at finalPath and nothing at  *)
(* the request's staged path.                                                 *)
C3_FinalizePostcondition ==
    [][\A r \in Reqs :
          Completes(r) => /\ IsFile(fs', Comp(loc'[r].finalPath))
                          /\ ~Exists(fs', Comp(loc'[r].path))]_vars

\* the upload q has been answered with a 200 and its object is the file at path p
Finalized(q, p) == IsUpload(q) /\ Succeeded(q) /\ loc[q].finalPath = p /\ IsFile(fs, Comp(p))

(* C4: objects are immutable once finalized: once a hashed upload has left    *)
(* its object at a final path, no finalize step of another upload renames a   *)
(* staged file onto that path.                                                *)
C4_NoOverwrite ==
    [][\A r \in Reqs :
          (Completes(r) /\ loc'[r].branch = "catch")
          => ~\E q \in Reqs \ {r} : Finalized(q, loc[r].finalPath)]_vars

(* C5: round trip: at the moment a hashed upload of the payload B is answered *)
(* with a 200, the file at the returned final path holds exactly the bytes    *)
(* of B, whatever other uploads and direct writes are interleaved with it.    *)
C5_RoundTrip ==
    [][\A r \in Reqs :
          Completes(r) => /\ IsFile(fs', Comp(loc'[r].finalPath))
                          /\ Content(fs', inodes', Comp(loc'[r].finalPath)) = inp[r].body]_vars

(* C6: a request whose key has a ".." segment is rejected with "Invalid path" *)
(* and performs no filesystem mutation.                                       *)
C6_DotDotRejected ==
    \A r \in Reqs :
        (pc[r] # "idle" /\ HasDotDot(inp[r].key))
        => /\ touched[r] = {}
           /\ Answered(r) => Reply(r).error = InvalidPath

(* C7: two direct writes to the same bucket and key, the second arriving      *)
(* after the first was answered, both answered with a 200: the file at the    *)
(* key then holds exactly the bytes of the second.                            *)
C7_LastWriteWins ==
    \A r1, r2 \in Reqs :
        (/\ IsDirect(r1) /\ IsDirect(r2)
         /\ r1 \in loc[r2].after
         /\ inp[r1].bucket = inp[r2].bucket /\ inp[r1].key = inp[r2].key
         /\ Succeeded(r1) /\ Succeeded(r2))
        => Content(fs, inodes, Comp(loc[r2].path)) = inp[r2].body

\* a longer body overwritten by a shorter one
C7_ShorterOverLonger ==
    \E r1, r2 \in Reqs :
        /\ IsDirect(r1) /\ IsDirect(r2)
        /\ r1 \in loc[r2].after
        /\ inp[r1].bucket = inp[r2].bucket /\ inp[r1].key = inp[r2].key
        /\ Succeeded(r1) /\ Succeeded(r2)
        /\ Len(inp[r1].body) > Len(inp[r2].body)

(* C8: a request that ends on a failed path resolution or on a missing input  *)
(* (no uploaded file, no key) is answered with a client error, 4xx.           *)
C8_ClientError ==
    \A r \in Reqs :
        (Answered(r) /\ Reply(r).error \in {InvalidPath, MissingFile, MissingKey})
        => Reply(r).status \in 400 .. 499

(* C9: a request that ends on a failed filesystem operation is answered with  *)
(* a server error, 5xx.                                                       *)
C9_ServerError ==
    \A r \in Reqs :
        (Answered(r) /\ Reply(r).error = FsError)
        => Reply(r).status \in 500 .. 599

(* C10: a hashed upload that fails in the handler, after its file was staged, *)
(* has no staged file left when the error response is sent.                   *)
C10_StagedFileRemoved ==
    \A r \in Reqs :
        (/\ IsUpload(r) /\ inp[r].hasFile
         /\ Answered(r) /\ Reply(r).status = 400)
        => ~Exists(fs, Comp(loc[r].path))

----------------------------------------------------------------------------
(* The object namespace *)

\* the path that a request naming <key> in <bucket> addresses: outPath of a
\* direct write, and the file express.static serves for /public/<bucket>/<key>
directPath(bucket, key) == resolveSafePath(publicRoot, <<bucket, key>>)

\* the upload r is in flight and its staged file is on disk
Staged(r) ==
    /\ IsUpload(r)
    /\ pc[r] \in {"stageWrite", "handler", "access", "unlink", "mkdir", "rename"}
    /\ IsFile(fs, Comp(loc[r].path))

\* the keys a client can name: the keys clients choose, and the keys the
\* server has returned, which are those of the 200 of an upload. The name drawn
\* from crypto.randomBytes for a staged file is returned to nobody while the
\* upload is in flight.
knownKeys ==
    PutKeys \cup {loc[q].finalKey : q \in {u \in Reqs : IsUpload(u) /\ Succeeded(u)}}

(* C11: the staged file of an in-flight upload is that request's alone. No    *)
(* other request has created, written, removed or renamed it, none has its    *)
(* path as the path it writes, hashes or checks for existence, and no key a   *)
(* client can name resolves to it.                                            *)
C11_StagedIsolated ==
    \A r \in Reqs :
        Staged(r)
        => /\ \A q \in Reqs \ {r} :
                  /\ Comp(loc[r].path) \notin touched[q]
                  /\ loc[r].path \notin {loc[q].path, loc[q].tempPath, loc[q].finalPath}
           /\ \A k \in knownKeys : directPath(inp[r].bucket, k).path # loc[r].path

\* a direct write is writing into the directory in which an upload in flight
\* has its staged file
C11_StagedBesideWriter ==
    \E r, q \in Reqs :
        /\ Staged(r)
        /\ IsDirect(q) /\ pc[q] = "putWrite"
        /\ pathDirname(loc[q].path) = loc[r].destination

----------------------------------------------------------------------------
(* Naming of the final object *)

\* the directory of the key, in the bucket of the upload r
keyDirectory(r) == resolveSafePath(publicRoot, <<inp[r].bucket, finalDirOf(inp[r].key)>>).path

\* the final path of the upload r is <ext>-named: the fingerprint of its body
\* followed by ext, in the directory of its key
NamedWith(r, ext) ==
    /\ pathDirname(loc[r].finalPath) = keyDirectory(r)
    /\ pathBasename(loc[r].finalPath) = DigestHex(inp[r].body) \o ext

(* C12 as stated: the final object of a hashed upload is stored in the key's  *)
(* directory under <fingerprint><ext>, ext being the extension of the key.    *)
C12_KeyExtension ==
    \A r \in Reqs :
        (IsUpload(r) /\ Succeeded(r)) => NamedWith(r, pathExtname(inp[r].key))

(* C12, amended: the final object of a hashed upload is stored in the key's   *)
(* directory under <fingerprint><ext>, ext being the extension of the         *)
(* original filename when the part has one and of the key otherwise; with     *)
(* neither, the name is the bare fingerprint.                                 *)
C12_NameExtension ==
    \A r \in Reqs :
        (IsUpload(r) /\ Succeeded(r))
        => /\ NamedWith(r, IF inp[r].originalname # <<>>
                           THEN pathExtname(inp[r].originalname)
                           ELSE pathExtname(inp[r].key))
           /\ (inp[r].originalname = <<>> /\ inp[r].key = <<>>)
              => pathBasename(loc[r].finalPath) = DigestHex(inp[r].body)

\* an upload whose original filename and key have different extensions has
\* been stored
C12_TwoExtensions ==
    \E r \in Reqs :
        /\ IsUpload(r) /\ Succeeded(r)
        /\ inp[r].key = keyDir /\ inp[r].originalname = namePic
        /\ IsFile(fs, Comp(loc[r].finalPath))

----------------------------------------------------------------------------
(* The result of a hashed upload *)

\* the JSON of the 200: bucket, key, path, url, size, sha256
resultOf(r) ==
    [bucket |-> inp[r].bucket,
     key    |-> loc[r].finalKey,
     path   |-> loc[r].finalPath,
     url    |-> <<"/", "p", "u", "b", "l", "i", "c", "/">> \o inp[r].bucket \o <<"/">> \o loc[r].finalKey,
     size   |-> Len(inp[r].body),
     sha256 |-> loc[r].sha256Hex]

\* the upload r was answered with a 200 after the branch b of its finalize:
\* "try" removed the staged file, "catch" renamed it to the final path
FinalizedBy(r, b) == IsUpload(r) /\ Succeeded(r) /\ loc[r].branch = b

(* C13: a finalize that found the object in place and one that promoted its  *)
(* staged file report different outcomes: the results of two such uploads    *)
(* are never the same.                                                       *)
C13_OutcomesDistinct ==
    \A r1, r2 \in Reqs :
        (FinalizedBy(r1, "try") /\ FinalizedBy(r2, "catch")) => resultOf(r1) # resultOf(r2)

----------------------------------------------------------------------------
(* C14: resolveSafePath accepts a candidate exactly when its normalized       *)
(* absolute path is rootDir itself or begins with rootDir followed by the     *)
(* separator; a sibling whose name has rootDir's name as a prefix (/d/abc     *)
(* for the root /d/ab) is rejected.                                           *)
C14_Containment ==
    call.done
    => /\ IsAbsolute(call.path) /\ pathNormalize(call.path) = call.path
       /\ call.ok <=> (\/ call.path = call.rootDir
                       \/ StartsWith(call.path, call.rootDir \o <<sep>>))
       /\ StartsWith(call.path, <<"/", "d", "/", "a", "b", "c">>)
          => (call.rootDir = <<"/", "d", "/", "a", "b">> => ~call.ok)

\* a candidate in the sibling /d/abc of the root /d/ab has been rejected
C14_SiblingRejected ==
    /\ call.done
    /\ call.rootDir = <<"/", "d", "/", "a", "b">>
    /\ call.path = <<"/", "d", "/", "a", "b", "c">>
    /\ ~call.ok

----------------------------------------------------------------------------
\* the upload r has reached the handler with a staged file
InHandler(r) ==
    /\ IsUpload(r)
    /\ loc[r].path # <<>>
    /\ pc[r] \in {"handler", "access", "unlink", "mkdir", "rename", "done"}

(* C15: for an upload that reaches the handler with a staged file, the        *)
(* tempPath the handler computes from the key is the path at which the        *)
(* storage wrote the file, whether the key field came before or after the     *)
(* file part, and hashing never fails for want of the staged file.            *)
C15_StageLocationAgrees ==
    \A r \in Reqs :
        InHandler(r)
        => /\ tempPathOf(inp[r], loc[r].filename).path = loc[r].path
           /\ ~(Answered(r) /\ Reply(r).error = FsError /\ loc[r].sha256Hex = <<>>)

----------------------------------------------------------------------------
\* r1 and r2 are direct writes of different bodies to the same path, both
\* answered with 200
BothWrote(r1, r2) ==
    /\ r1 # r2
    /\ IsDirect(r1) /\ IsDirect(r2)
    /\ Succeeded(r1) /\ Succeeded(r2)
    /\ loc[r1].path = loc[r2].path
    /\ inp[r1].body # inp[r2].body

(* C16: after two concurrent direct writes of different bodies to the same    *)
(* bucket and key have both been answered with 200, the file holds one of     *)
(* the two bodies in full, never a mixture of them.                           *)
C16_NoMixture ==
    \A r1, r2 \in Reqs :
        BothWrote(r1, r2)
        => Content(fs, inodes, Comp(loc[r1].path)) \in {inp[r1].body, inp[r2].body}

----------------------------------------------------------------------------
(* Progress of a request *)

\* how far a handler position is from the response, along the longest path
pcRank(p) ==
    CASE p = "idle"        -> 9
      [] p = "destination" -> 8
      [] p = "stageOpen"   -> 7
      [] p = "stageWrite"  -> 6
      [] p = "handler"     -> 5
      [] p = "access"      -> 4
      [] p = "unlink"      -> 3
      [] p = "mkdir"       -> 2
      [] p = "rename"      -> 1
      [] p = "put"         -> 8
      [] p = "putOpen"     -> 7
      [] p = "putWrite"    -> 6
      [] p = "done"        -> 0

\* the steps the request r has left at most: positions first, then the chunks
\* of its body still to be written
stepsLeft(r) == pcRank(pc[r]) * (NumBodies + 1) + (Len(inp[r].body) - loc[r].pos)

\* r has arrived and has not been answered
Pending(r) == pc[r] \notin {"idle", "done"}

\* the positions from which Step(r) continues: each step is guarded by its
\* position alone and ends in a next position or in a response
stepPositions ==
    {"destination", "stageOpen", "stageWrite", "handler", "access", "unlink",
     "mkdir", "rename", "put", "putOpen", "putWrite"}

----------------------------------------------------------------------------
\* the step removes the staged file of the upload r: its unlink, or its rename
\* to the final path
RemovesOwnStaged(r, c) ==
    /\ IsUpload(r)
    /\ c = Comp(loc[r].path)
    /\ pc[r] \in {"unlink", "rename"}
    /\ pc'[r] = "done"

(* C18: under every interleaving of hashed uploads and direct writes, the     *)
(* only file that a step makes disappear from its path is the staged file of  *)
(* the upload taking the step, and a file at the final path of an upload is   *)
(* still a file at that path after every step.                                *)
C18_ObjectsPersist ==
    [][/\ \A c \in DOMAIN fs :
              (IsFile(fs, c) /\ ~IsFile(fs', c)) => \E r \in Reqs : RemovesOwnStaged(r, c)
       /\ \A r \in Reqs :
              (InFinalize(r) /\ IsFile(fs, Comp(loc[r].finalPath)))
              => IsFile(fs', Comp(loc[r].finalPath))]_vars

\* an upload found its object in place and removed its staged file, and the
\* object is still at the final path
C18_KeptThroughDedup ==
    \E r \in Reqs :
        /\ FinalizedBy(r, "try")
        /\ IsFile(fs, Comp(loc[r].finalPath))
        /\ ~Exists(fs, Comp(loc[r].path))

====
